---- MODULE Spec2Model ----
(***************************************************************************)
(* tinymarkdownnotes: the note store (one JSON file per slug), the slug    *)
(* validator and the two request handlers of src/app.py, view_note (GET)   *)
(* and update_note (POST), as a state machine.  Every request is a process *)
(* whose steps are the handler's accesses to the notes directory, so that  *)
(* requests served by different threads or workers interleave between any  *)
(* two file-system calls.                                                  *)
(***************************************************************************)
EXTENDS Integers, Sequences, FiniteSets, TLC

\* ------------------------------------------------------------------ bounds

\* request slots served concurrently under Spec
MaxReq == 3
\* requests served one after the other under SeqSpec
MaxSeqReq == 4
\* requests served one after the other under SlugSpec
MaxSlugReq == 2
\* the slugs SlugSpec submits: every string of at most MaxProbeLen characters
\* of ProbeChars, and the strings around the length limit
MaxProbeLen == 2

\* -------------------------------------------------------- program constants

\* SLUG_PATTERN's {1,64}
MaxSlugLen == 64
MAX_MARKDOWN_SIZE == 100000
ADMIN_KEY == "change-me-in-production"

\* HTTP statuses the handlers return (a request without a response has 0);
\* 500 is what the framework answers when an exception leaves the handler
Ok == 200
Redirect == 302
InvalidSlug == 400
NotFound == 404
Conflict == 409
TooLarge == 413
ServerError == 500

\* ------------------------------------------------------------------- slugs
\* A slug is a sequence of one-character strings.

Lower == {"a","b","c","d","e","f","g","h","i","j","k","l","m",
          "n","o","p","q","r","s","t","u","v","w","x","y","z"}
Upper == {"A","B","C","D","E","F","G","H","I","J","K","L","M",
          "N","O","P","Q","R","S","T","U","V","W","X","Y","Z"}
Digit == {"0","1","2","3","4","5","6","7","8","9"}

\* the character class [a-zA-Z0-9_-]
SlugClass == Lower \cup Upper \cup Digit \cup {"_", "-"}

\* Python's $ (no re.MULTILINE): at the end of the string, and also just
\* before a line break that is the string's last character.  n characters
\* have been consumed.
DollarMatches(s, n) ==
    \/ n = Len(s)
    \/ n = Len(s) - 1 /\ s[Len(s)] = "\n"

\* SLUG_PATTERN.match(s): ^ , between 1 and 64 characters of the class, $
SLUG_PATTERN_match(s) ==
    \E n \in 1..MaxSlugLen :
        /\ n <= Len(s)
        /\ \A i \in 1..n : s[i] \in SlugClass
        /\ DollarMatches(s, n)

validate_slug(slug) == SLUG_PATTERN_match(slug)

RECURSIVE Str(_)
\* the string a sequence of characters spells
Str(s) == IF s = <<>> THEN "" ELSE Head(s) \o Str(Tail(s))

\* get_note_path naming the file by the slug's first character only
get_note_path_first_char(slug) ==
    (IF slug = <<>> THEN "" ELSE Head(slug)) \o ".json"

\* the note's file name under NOTES_DIR
get_note_path(slug) == Str(slug) \o ".json"

RECURSIVE Rep(_, _)
\* s * n
Rep(s, n) == IF n = 0 THEN <<>> ELSE s \o Rep(s, n - 1)

\* ------------------------------------------------------------ note records

\* Python's None, and a value that may be None in its place
None == [none |-> TRUE]
Some(x) == [some |-> x]

\* a local variable before its assignment
Unset == [unset |-> TRUE]

\* A markdown text is unit * times (as in "x" * 200_000), and width is the
\* number of bytes a character of unit takes in UTF-8: 1 for ASCII, 2 for a
\* letter like e-acute (U+00E9), which is written "e" with width 2.
\* len() of the text, a str, is its number of characters:
MdLen(md) == Len(md.unit) * md.times

\* the length of the text inside the document json.dump writes: ASCII as it
\* is, any other character of the basic plane as the six of \uXXXX
JsonLen(md) == Len(md.unit) * (IF md.width = 1 THEN 1 ELSE 6) * md.times

\* the text view_note gives a new note
default_markdown(slug) ==
    [unit |-> "# " \o Str(slug) \o "\n\n- [ ] First item\n", times |-> 1,
     width |-> 1]

\* A file of the notes directory has a content and a size.  The content is
\* the JSON document as the sequence of its values (markdown, version,
\* created_at); the empty sequence is an empty file, and a document followed
\* by the tail of a longer one is what two overlapping writes leave.
EmptyFile == [data |-> <<>>, size |-> 0]

json_dump(note_data) ==
    <<note_data.markdown, note_data.version, note_data.created_at>>

\* json.load: the note, or None for the JSONDecodeError it raises on an
\* empty file and on a document with extra data after it
json_load(data) ==
    IF Len(data) = 3
    THEN [ok |-> TRUE,
          note |-> [markdown |-> data[1], version |-> data[2],
                    created_at |-> data[3]]]
    ELSE [ok |-> FALSE, note |-> None]

\* the number of characters of the decimal numeral of n >= 0
RECURSIVE NumeralLen(_)
NumeralLen(n) == IF n < 10 THEN 1 ELSE 1 + NumeralLen(n \div 10)

\* The length of the document json.dump writes, up to what is the same for
\* every note (the keys, the punctuation, the timestamp): it grows with the
\* markdown and with the version's numeral.
DocLen(doc) == JsonLen(doc[1]) + NumeralLen(doc[2])

\* What a file holds after `doc` is written from offset 0 by a writer whose
\* open() truncated it earlier: the file is not truncated again, so a longer
\* content written in between keeps its tail.
WriteAtStart(file, doc) ==
    IF DocLen(doc) >= file.size
    THEN [data |-> doc, size |-> DocLen(doc)]
    ELSE [data |-> doc \o <<"tail">>, size |-> file.size]

\* -------------------------------------------------------------- form fields

\* int(text) for the texts the model submits: decimal digits, or a
\* ValueError (None) for any other text, the empty one included
IsDecimal(text) == Len(text) > 0 /\ \A i \in 1..Len(text) : text[i] \in Digit

DigitValue(c) ==
    CASE c = "0" -> 0 [] c = "1" -> 1 [] c = "2" -> 2 [] c = "3" -> 3
      [] c = "4" -> 4 [] c = "5" -> 5 [] c = "6" -> 6 [] c = "7" -> 7
      [] c = "8" -> 8 [] c = "9" -> 9

RECURSIVE int(_)
int(text) ==
    IF Len(text) = 1 THEN DigitValue(text[1])
    ELSE 10 * int(SubSeq(text, 1, Len(text) - 1)) + DigitValue(text[Len(text)])

\* request.form.get("markdown", "")
form_markdown(form) ==
    IF form.markdown = None
    THEN [unit |-> "", times |-> 0, width |-> 1]
    ELSE form.markdown

\* form_version with 1 as the default of a missing field
form_version_default_one(form) ==
    IF form.version = None THEN [ok |-> TRUE, value |-> 1]
    ELSE IF IsDecimal(form.version.some)
         THEN [ok |-> TRUE, value |-> int(form.version.some)]
         ELSE [ok |-> FALSE, value |-> 0]

\* int(request.form.get("version", 0)): the number, or None for a ValueError
form_version(form) ==
    IF form.version = None THEN [ok |-> TRUE, value |-> 0]
    ELSE IF IsDecimal(form.version.some)
         THEN [ok |-> TRUE, value |-> int(form.version.some)]
         ELSE [ok |-> FALSE, value |-> 0]

\* ------------------------------------------------------------------- state

Slots == 1..MaxReq

VARIABLES
    files,      \* the notes directory: the name of each file -> the file
    clock,      \* datetime.now(): the number of timestamps taken so far
    started,    \* the number of requests received so far
    pc,         \* each request's position in its handler
    req,        \* each request: method, slug, query key, header, form
    note,       \* the handler's local `note`
    ts,         \* save_note's note_data["created_at"]
    resp,       \* the status returned, 0 while there is none
    notified    \* the notify_change calls made for the request

vars == <<files, clock, started, pc, req, note, ts, resp, notified>>

\* the Authorization header of HTTP Basic authentication with an empty user
\* name: "Basic " + b64encode(":" + password)
BasicAuth(password) == [scheme |-> "Basic", user |-> "", password |-> password]

\* the requests a specification submits: the values each input is drawn from
ConcInputs ==
    [slugs |-> {<<"a">>},
     keys |-> {None, Some(ADMIN_KEY)},
     auths |-> {None},
     markdowns |-> {[unit |-> "B", times |-> 1, width |-> 1],
                    [unit |-> "x", times |-> MAX_MARKDOWN_SIZE + 1, width |-> 1]},
     versions |-> {Some(<<"1">>), Some(<<"2">>)}]

SeqInputs ==
    [slugs |-> {<<"a">>, <<"b">>, <<"a", "\n">>, <<"a", ".">>},
     keys |-> {None, Some(ADMIN_KEY), Some("wrong")},
     auths |-> {None, Some(BasicAuth(ADMIN_KEY))},
     markdowns |-> {None,
                    [unit |-> "B", times |-> 1, width |-> 1],
                    [unit |-> "x", times |-> MAX_MARKDOWN_SIZE, width |-> 1],
                    [unit |-> "e", times |-> MAX_MARKDOWN_SIZE, width |-> 2],
                    [unit |-> "x", times |-> MAX_MARKDOWN_SIZE + 1, width |-> 1]},
     versions |-> {None, Some(<<"1">>), Some(<<"2">>), Some(<<"9", "9", "9">>),
                   Some(<<"x">>)}]

\* characters a slug is probed with: of the class, and those a path, a file
\* name or a line could be broken with
ProbeChars == {"a", "Z", "0", "-", "_", "/", ".", " ", "@", "\n"}

RECURSIVE Strings(_)
\* the strings of at most n characters of ProbeChars
Strings(n) ==
    IF n = 0 THEN {<<>>}
    ELSE Strings(n - 1) \cup
         {s \o <<c>> : s \in Strings(n - 1), c \in ProbeChars}

SlugProbes ==
    Strings(MaxProbeLen) \cup
    {Rep(<<"a">>, MaxSlugLen - 1), Rep(<<"a">>, MaxSlugLen),
     Rep(<<"a">>, MaxSlugLen + 1),
     Rep(<<"a">>, MaxSlugLen - 1) \o <<"\n">>,
     Rep(<<"a">>, MaxSlugLen) \o <<"\n">>,
     Rep(<<"a">>, MaxSlugLen) \o <<"/">>}

SlugInputs ==
    [slugs |-> SlugProbes,
     keys |-> {None, Some(ADMIN_KEY)},
     auths |-> {None},
     markdowns |-> {[unit |-> "B", times |-> 1, width |-> 1]},
     versions |-> {Some(<<"1">>)}]

Init ==
    /\ files = [p \in {} |-> EmptyFile]
    /\ clock = 0
    /\ started = 0
    /\ pc = [r \in Slots |-> "idle"]
    /\ req = [r \in Slots |-> None]
    /\ note = [r \in Slots |-> None]
    /\ ts = [r \in Slots |-> Unset]
    /\ resp = [r \in Slots |-> 0]
    /\ notified = [r \in Slots |-> 0]

\* ---------------------------------------------------------------- the store

\* note_path.exists()
exists(path) == path \in DOMAIN files

\* load_note: the note, None when there is no file; ok is FALSE when
\* json.load raises
load_note(slug) ==
    IF ~exists(get_note_path(slug))
    THEN [ok |-> TRUE, note |-> None]
    ELSE json_load(files[get_note_path(slug)].data)

\* the directory with `file` under `path`
WithFile(path, file) ==
    [q \in DOMAIN files \cup {path} |-> IF q = path THEN file ELSE files[q]]

\* the handler returns `status`
Return(r, status) ==
    /\ resp' = [resp EXCEPT ![r] = status]
    /\ pc' = [pc EXCEPT ![r] = "done"]

Goto(r, label) ==
    /\ pc' = [pc EXCEPT ![r] = label]
    /\ UNCHANGED resp

\* ------------------------------------------------------------- the handlers
\* A step of a handler is one access to the notes directory together with the
\* statements that follow it up to the next access: those read and write the
\* request's own locals only.

\* view_note_loaded creating the note whatever the request's key is
view_note_loaded_any_key(request, loaded) ==
    IF loaded = None THEN 0 ELSE Ok

\* view_note once `note` is loaded: 0 to go on to save_note, or the status
\* returned (200 is render_template of the note)
view_note_loaded(request, loaded) ==
    IF loaded = None
    THEN IF request.key = Some(ADMIN_KEY) THEN 0 ELSE NotFound
    ELSE Ok

\* update_note_loaded without the version check
update_note_loaded_unchecked(request, loaded) ==
    IF loaded = None THEN NotFound
    ELSE IF ~form_version(request).ok THEN ServerError
    ELSE IF MdLen(form_markdown(request)) > MAX_MARKDOWN_SIZE THEN TooLarge
    ELSE 0

\* update_note_loaded with the version check before the size check
update_note_loaded_version_first(request, loaded) ==
    IF loaded = None THEN NotFound
    ELSE IF ~form_version(request).ok THEN ServerError
    ELSE IF form_version(request).value # loaded.version THEN Conflict
    ELSE IF MdLen(form_markdown(request)) > MAX_MARKDOWN_SIZE THEN TooLarge
    ELSE 0

\* update_note_loaded reading and checking the form before it looks at the
\* note
update_note_loaded_form_first(request, loaded) ==
    IF ~form_version(request).ok THEN ServerError
    ELSE IF MdLen(form_markdown(request)) > MAX_MARKDOWN_SIZE THEN TooLarge
    ELSE IF loaded = None THEN NotFound
    ELSE IF form_version(request).value # loaded.version THEN Conflict
    ELSE 0

\* update_note once `note` is loaded: 0 to go on to save_note, or the status
\* returned; a ValueError of int() leaves the handler (500)
update_note_loaded(request, loaded) ==
    IF loaded = None THEN NotFound
    ELSE LET new_markdown == form_markdown(request)
             client_version == form_version(request)
         IN IF ~client_version.ok THEN ServerError
            ELSE IF MdLen(new_markdown) > MAX_MARKDOWN_SIZE THEN TooLarge
            ELSE IF client_version.value # loaded.version THEN Conflict
            ELSE 0

\* A request arrives, a GET (view_note) with its query key and Authorization
\* header or a POST (update_note) with its form, and its handler validates
\* the slug.  Slots are taken in order.
Request(r, inputs, limit) ==
    /\ pc[r] = "idle"
    /\ IF r = 1 THEN TRUE ELSE pc[r - 1] # "idle"
    /\ started < limit
    /\ \E slug \in inputs.slugs :
        /\ \/ \E key \in inputs.keys, auth \in inputs.auths :
                req' = [req EXCEPT ![r] =
                          [method |-> "GET", slug |-> slug, key |-> key,
                           authorization |-> auth,
                           markdown |-> None, version |-> None]]
           \/ \E md \in inputs.markdowns, v \in inputs.versions :
                req' = [req EXCEPT ![r] =
                          [method |-> "POST", slug |-> slug, key |-> None,
                           authorization |-> None,
                           markdown |-> md, version |-> v]]
        /\ IF validate_slug(slug)
           THEN Goto(r, "load")
           ELSE Return(r, InvalidSlug)
    /\ started' = started + 1
    /\ UNCHANGED <<files, clock, note, ts, notified>>

\* note = load_note(slug), and what the handler does with it
Load(r) ==
    /\ pc[r] = "load"
    /\ LET got == load_note(req[r].slug)
           status == IF req[r].method = "GET"
                     THEN view_note_loaded(req[r], got.note)
                     ELSE update_note_loaded(req[r], got.note)
       IN IF ~got.ok
          THEN Return(r, ServerError) /\ UNCHANGED note
          ELSE /\ note' = [note EXCEPT ![r] = got.note]
               /\ IF status = 0 THEN Goto(r, "save50") ELSE Return(r, status)
    /\ UNCHANGED <<files, clock, started, req, ts, notified>>

\* save_markdown taking the form's markdown for a view too
save_markdown_of_form(r) == form_markdown(req[r])

\* the arguments of the handler's save_note call
save_markdown(r) ==
    IF req[r].method = "GET"
    THEN default_markdown(req[r].slug)
    ELSE form_markdown(req[r])

\* save_version without the increment
save_version_kept(r) ==
    IF req[r].method = "GET" THEN 1 ELSE note[r].version

save_version(r) ==
    IF req[r].method = "GET" THEN 1 ELSE note[r].version + 1

\* save_note, building note_data: created_at is now() for a new file
Save50(r) ==
    /\ pc[r] = "save50"
    /\ IF ~exists(get_note_path(req[r].slug))
       THEN /\ clock' = clock + 1
            /\ ts' = [ts EXCEPT ![r] = Some(clock + 1)]
       ELSE /\ ts' = [ts EXCEPT ![r] = None]
            /\ UNCHANGED clock
    /\ Goto(r, "save53")
    /\ UNCHANGED <<files, started, req, note, notified>>

\* save_note: an existing file's created_at is kept
Save53(r) ==
    /\ pc[r] = "save53"
    /\ IF exists(get_note_path(req[r].slug))
       THEN LET existing == load_note(req[r].slug) IN
            IF existing.ok
            THEN /\ ts' = [ts EXCEPT ![r] = existing.note.created_at]
                 /\ Goto(r, "open")
            ELSE /\ Return(r, ServerError)
                 /\ UNCHANGED ts
       ELSE /\ Goto(r, "open")
            /\ UNCHANGED ts
    /\ UNCHANGED <<files, clock, started, req, note, notified>>

\* save_note: open(note_path, "w") creates the file or truncates it
Open(r) ==
    /\ pc[r] = "open"
    /\ files' = WithFile(get_note_path(req[r].slug), EmptyFile)
    /\ Goto(r, "dump")
    /\ UNCHANGED <<clock, started, req, note, ts, notified>>

\* save_note: json.dump and the close that writes the document out
Dump(r) ==
    /\ pc[r] = "dump"
    /\ LET path == get_note_path(req[r].slug)
           note_data == [markdown |-> save_markdown(r),
                         version |-> save_version(r),
                         created_at |-> ts[r]]
       IN files' = WithFile(path, WriteAtStart(files[path], json_dump(note_data)))
    /\ IF req[r].method = "GET"
       THEN Goto(r, "reload")
       ELSE Goto(r, "notify")
    /\ UNCHANGED <<clock, started, req, note, ts, notified>>

\* view_note after creating the note: note = load_note(slug), then
\* render_template
Reload(r) ==
    /\ pc[r] = "reload"
    /\ LET got == load_note(req[r].slug) IN
        IF got.ok
        THEN /\ note' = [note EXCEPT ![r] = got.note]
             /\ Return(r, Ok)
        ELSE /\ Return(r, ServerError)
             /\ UNCHANGED note
    /\ UNCHANGED <<files, clock, started, req, ts, notified>>

\* notify_change printing nothing
notify_change_silent(emitted) == emitted

\* notify_change: one [CHANGE] line more is printed
notify_change(emitted) == emitted + 1

\* update_note after the save: notify_change, then the redirect
Notify(r) ==
    /\ pc[r] = "notify"
    /\ notified' = [notified EXCEPT ![r] = notify_change(notified[r])]
    /\ Return(r, Redirect)
    /\ UNCHANGED <<files, clock, started, req, note, ts>>

\* update_note after the save, when notify_change raises (its print, or
\* what it is extended with, fails): the call is in no try block, the
\* exception leaves the handler and the redirect is not returned
NotifyRaises(r) ==
    /\ pc[r] = "notify"
    /\ Return(r, ServerError)
    /\ UNCHANGED <<files, clock, started, req, note, ts, notified>>

\* the slot of an answered request is free for the next one
Recycle(r) ==
    /\ pc[r] = "done"
    /\ pc' = [pc EXCEPT ![r] = "idle"]
    /\ req' = [req EXCEPT ![r] = None]
    /\ note' = [note EXCEPT ![r] = None]
    /\ ts' = [ts EXCEPT ![r] = Unset]
    /\ resp' = [resp EXCEPT ![r] = 0]
    /\ notified' = [notified EXCEPT ![r] = 0]
    /\ UNCHANGED <<files, clock, started>>

\* one step of request r's handler
Step(r) ==
    \/ Load(r)
    \/ Save50(r)
    \/ Save53(r)
    \/ Open(r)
    \/ Dump(r)
    \/ Reload(r)
    \/ Notify(r)

\* ----------------------------------------------------------- specifications

\* Requests are served concurrently: their steps interleave.
Next ==
    \E r \in Slots :
        \/ Request(r, ConcInputs, MaxReq)
        \/ Step(r)

Spec == Init /\ [][Next]_vars

\* Requests are served one after the other, each to its response.
SeqNext ==
    \/ Request(1, SeqInputs, MaxSeqReq)
    \/ Step(1)
    \/ Recycle(1)

SeqSpec == Init /\ [][SeqNext]_vars

\* Requests are served one after the other, with the slugs of SlugProbes.
SlugNext ==
    \/ Request(1, SlugInputs, MaxSlugReq)
    \/ Step(1)
    \/ Recycle(1)

SlugSpec == Init /\ [][SlugNext]_vars

\* Requests are served one after the other, and notify_change may fail.
NotifyNext ==
    \/ Request(1, SeqInputs, MaxSeqReq)
    \/ Step(1)
    \/ NotifyRaises(1)
    \/ Recycle(1)

NotifySpec == Init /\ [][NotifyNext]_vars

\* ------------------------------------------------------------------ claims

\* request r has its response
Done(r) == pc[r] = "done"

IsView(r) == req[r] # None /\ req[r].method = "GET"
IsUpdate(r) == req[r] # None /\ req[r].method = "POST"

\* the content of the file of r's slug, the empty one when there is none
Stored(r) ==
    IF exists(get_note_path(req[r].slug))
    THEN files[get_note_path(req[r].slug)].data
    ELSE <<>>

\* update r found a note and submits a version number that is the note's
Presents(r) ==
    /\ IsUpdate(r)
    /\ note[r] # None
    /\ form_version(req[r]).ok
    /\ form_version(req[r]).value = note[r].version

\* update r found a note and submits a version number that is not the note's
PresentsStale(r) ==
    /\ IsUpdate(r)
    /\ note[r] # None
    /\ form_version(req[r]).ok
    /\ form_version(req[r]).value # note[r].version

WithinLimit(r) == MdLen(form_markdown(req[r])) <= 100000

\* the contract of a slug: 1 to 64 ASCII letters, digits, hyphens, underscores
SlugContract(s) ==
    /\ Len(s) >= 1
    /\ Len(s) <= 64
    /\ \A i \in 1..Len(s) : s[i] \in Lower \cup Upper \cup Digit \cup {"-", "_"}

\* C1: of two updates of one slug that both found version N and both present
\* N, exactly one reports success: no interleaving of their steps lets both
\* report success.
C1_OneOfTwoSucceeds ==
    \A r1 \in Slots, r2 \in Slots :
        ( /\ r1 # r2
          /\ Presents(r1) /\ Presents(r2)
          /\ req[r1].slug = req[r2].slug
          /\ note[r1].version = note[r2].version
          /\ WithinLimit(r1) /\ WithinLimit(r2)
          /\ Done(r1) /\ Done(r2) )
        => Cardinality({r \in {r1, r2} : resp[r] = Redirect}) = 1

\* C2: a write over a stored note of version v writes version v + 1: the
\* version never decreases, never skips, never resets.
C2_WriteIncrementsVersion ==
    [][\A r \in Slots :
          ( /\ pc[r] = "open"
            /\ pc'[r] = "dump"
            /\ json_load(Stored(r)).ok )
          => save_version(r) = json_load(Stored(r)).note.version + 1]_vars

\* C3: served alone, an update of a note of version v that presents v with a
\* markdown within the limit succeeds and leaves the submitted markdown at
\* version v + 1 (created_at kept), which is what a read then returns; a view
\* of an existing note returns the stored record.
C3_UpdateStoresNextVersion ==
    \A r \in Slots :
        /\ (Presents(r) /\ WithinLimit(r) /\ Done(r))
           => /\ resp[r] = Redirect
              /\ Stored(r) = <<form_markdown(req[r]), note[r].version + 1,
                               note[r].created_at>>
              /\ load_note(req[r].slug) =
                   [ok |-> TRUE,
                    note |-> [markdown |-> form_markdown(req[r]),
                              version |-> note[r].version + 1,
                              created_at |-> note[r].created_at]]
        /\ (IsView(r) /\ Done(r) /\ resp[r] = Ok)
           => load_note(req[r].slug) = [ok |-> TRUE, note |-> note[r]]

\* an update that presented the stored version is answered, and the note is
\* at version 2 or more
C3_Witness ==
    \E r \in Slots :
        /\ Presents(r) /\ WithinLimit(r) /\ Done(r)
        /\ resp[r] = Redirect
        /\ Len(Stored(r)) = 3
        /\ Stored(r)[2] = 3
        /\ Stored(r)[1] = [unit |-> "x", times |-> 100000, width |-> 1]

\* C4 as stated: every update of an existing note that presents another
\* version than the stored one returns Conflict and leaves the record as it
\* was.
C4_StaleAlwaysConflict ==
    \A r \in Slots :
        (PresentsStale(r) /\ Done(r))
        => /\ resp[r] = Conflict
           /\ Stored(r) = json_dump(note[r])

\* C4, amended: an update of an existing note with a markdown within the
\* limit that presents another version than the stored one returns Conflict
\* and leaves markdown, version and created_at as they were.
C4_StaleWithinLimitConflict ==
    \A r \in Slots :
        (PresentsStale(r) /\ WithinLimit(r) /\ Done(r))
        => /\ resp[r] = Conflict
           /\ Stored(r) = json_dump(note[r])

\* a stale update of a note that an earlier update left at version 2 is
\* answered
C4_Witness ==
    \E r \in Slots :
        /\ PresentsStale(r) /\ WithinLimit(r) /\ Done(r)
        /\ form_version(req[r]).value = 1
        /\ note[r].version = 2
        /\ note[r].markdown = [unit |-> "B", times |-> 1, width |-> 1]

\* C5: no version of a note is accepted by more than one update: once an
\* update presenting v has succeeded, an update presenting v is a Conflict.
C5_VersionAcceptedOnce ==
    \A r1 \in Slots, r2 \in Slots :
        ( /\ r1 # r2
          /\ IsUpdate(r1) /\ IsUpdate(r2)
          /\ req[r1].slug = req[r2].slug
          /\ Done(r1) /\ Done(r2)
          /\ resp[r1] = Redirect /\ resp[r2] = Redirect )
        => form_version(req[r1]).value # form_version(req[r2]).value

\* C6: every update of an existing note whose markdown exceeds the limit
\* returns TooLarge and leaves markdown, version and created_at as they
\* were, whatever client_version it carries: the stored one, another one, or
\* the 0 of a request without a version field.
C6_OversizeTooLarge ==
    \A r \in Slots :
        ( /\ IsUpdate(r)
          /\ Done(r)
          /\ note[r] # None
          /\ form_version(req[r]).ok
          /\ ~WithinLimit(r) )
        => /\ resp[r] = TooLarge
           /\ Stored(r) = json_dump(note[r])

\* an update one character over the limit that presents the stored version
\* 2 is answered
C6_Witness ==
    \E r \in Slots :
        /\ Presents(r) /\ Done(r)
        /\ MdLen(form_markdown(req[r])) = 100001
        /\ note[r].version = 2
        /\ resp[r] = TooLarge

\* C7: the validator accepts exactly the slugs of the contract, and view_note
\* and update_note answer 400 to every other one.
C7_ValidatorIsContract ==
    \A r \in Slots :
        req[r] # None
        => /\ validate_slug(req[r].slug) <=> SlugContract(req[r].slug)
           /\ Done(r) => (resp[r] = InvalidSlug <=> ~SlugContract(req[r].slug))

\* C8: a request with a malformed slug is refused before any access to the
\* store: it never gets to save_note, its answer is the 400 of the validator
\* and not the outcome of a look-up, and no file is ever made for a
\* malformed slug.
C8_MalformedNeverReachesStore ==
    /\ \A r \in Slots :
          (req[r] # None /\ ~SlugContract(req[r].slug))
          => /\ pc[r] \notin {"save50", "save53", "open", "dump", "reload",
                              "notify"}
             /\ Done(r) => resp[r] = InvalidSlug
             /\ note[r] = None
             /\ ts[r] = Unset
    /\ \A s \in SlugProbes :
          ~SlugContract(s) => ~exists(get_note_path(s))

\* C9: served alone, an authorized view of a valid slug without a note
\* creates it, and the read that follows yields version 1 and the default
\* text "# s" with its check list.
C9_CreateThenRead ==
    \A r \in Slots :
        ( /\ IsView(r)
          /\ SlugContract(req[r].slug)
          /\ ts[r] # Unset
          /\ Done(r) )
        => /\ resp[r] = Ok
           /\ note[r] # None
           /\ note[r].version = 1
           /\ note[r].markdown =
                [unit |-> "# " \o Str(req[r].slug) \o "\n\n- [ ] First item\n",
                 times |-> 1, width |-> 1]
           /\ load_note(req[r].slug) = [ok |-> TRUE, note |-> note[r]]

\* a view has created the note of slug b and is answered
C9_Witness ==
    \E r \in Slots :
        /\ IsView(r) /\ Done(r)
        /\ req[r].slug = <<"b">>
        /\ ts[r] # Unset
        /\ resp[r] = Ok
        /\ exists("b.json")

\* C10: a view of a valid slug without a note that carries the admin key as
\* the password of a Basic Authorization header, and no key in the query,
\* creates the note and returns 200 with the default text.
C10_BasicAuthCreates ==
    \A r \in Slots :
        ( /\ IsView(r)
          /\ SlugContract(req[r].slug)
          /\ req[r].key = None
          /\ req[r].authorization = Some(BasicAuth(ADMIN_KEY))
          /\ Done(r)
          /\ (note[r] = None \/ ts[r] # Unset) )
        => /\ resp[r] = Ok
           /\ note[r] # None
           /\ note[r].version = 1
           /\ note[r].markdown = default_markdown(req[r].slug)

\* view r carries the admin key, in the query or as a Basic password
PresentsAdminKey(r) ==
    \/ req[r].key = Some(ADMIN_KEY)
    \/ req[r].authorization = Some(BasicAuth(ADMIN_KEY))

\* C11: a view of a valid slug that has no note and that does not present
\* the admin key is answered 404 at once, and the notes directory is as it
\* was: the slug still has no file.
C11_ViewWithoutKeyNotFound ==
    [][\A r \in Slots :
          ( /\ pc[r] = "load"
            /\ pc'[r] # "load"
            /\ IsView(r)
            /\ validate_slug(req[r].slug)
            /\ ~PresentsAdminKey(r)
            /\ ~exists(get_note_path(req[r].slug)) )
          => /\ pc'[r] = "done"
             /\ resp'[r] = NotFound
             /\ files' = files]_vars

\* a view of slug b with a wrong key is answered 404 while another note
\* exists, and b has no file
C11_Witness ==
    \E r \in Slots :
        /\ IsView(r) /\ Done(r)
        /\ req[r].slug = <<"b">>
        /\ req[r].key = Some("wrong")
        /\ req[r].authorization = None
        /\ resp[r] = NotFound
        /\ note[r] = None
        /\ exists("a.json")
        /\ ~exists("b.json")

\* C12: an update of a valid slug that has no note is answered 404 at once,
\* whatever its markdown and its version field are, and the notes directory
\* is as it was: the note is not created.
C12_UpdateAbsentNotFound ==
    [][\A r \in Slots :
          ( /\ pc[r] = "load"
            /\ pc'[r] # "load"
            /\ IsUpdate(r)
            /\ validate_slug(req[r].slug)
            /\ ~exists(get_note_path(req[r].slug)) )
          => /\ pc'[r] = "done"
             /\ resp'[r] = NotFound
             /\ files' = files]_vars

\* an oversized update of slug b with a version field that is not a number
\* is answered 404 while another note exists, and b has no file
C12_Witness ==
    \E r \in Slots :
        /\ IsUpdate(r) /\ Done(r)
        /\ req[r].slug = <<"b">>
        /\ req[r].version = Some(<<"x">>)
        /\ ~WithinLimit(r)
        /\ resp[r] = NotFound
        /\ exists("a.json")
        /\ ~exists("b.json")

\* C13: every load_note, of a handler and of save_note, while a write of the
\* same slug may be in progress, finds no file or a complete record: never
\* an empty, truncated or otherwise unparsable one.
C13_ReadsSeeCompleteRecord ==
    [][\A r \in Slots :
          (pc[r] \in {"load", "save53", "reload"} /\ pc'[r] # pc[r])
          => load_note(req[r].slug).ok]_vars

\* C14: every update, whatever its form holds, ends in one of the outcomes
\* success (302), Conflict, NotFound, TooLarge and InvalidSlug: no exception
\* leaves the handler.
C14_UpdateOutcomeExplicit ==
    \A r \in Slots :
        (IsUpdate(r) /\ Done(r))
        => resp[r] \in {Redirect, Conflict, NotFound, TooLarge, InvalidSlug}

\* C15: the created_at of a note is the one it was created with: every write
\* over a stored note, under any interleaving of creates and updates, writes
\* the stored created_at again.
C15_CreatedAtFixed ==
    [][\A r \in Slots :
          ( /\ pc[r] = "open"
            /\ pc'[r] = "dump"
            /\ json_load(Stored(r)).ok )
          => ts[r] = json_load(Stored(r)).note.created_at]_vars

\* C16: once a slug has a record, no step of a view, with or without the
\* admin key and under any interleaving, writes its file, and no step of
\* any request removes a file.
C16_ViewNeverWritesRecord ==
    [][/\ \A r \in Slots :
             ( /\ IsView(r)
               /\ pc'[r] # pc[r]
               /\ json_load(Stored(r)).ok )
             => files' = files
       /\ DOMAIN files \subseteq DOMAIN files']_vars

\* C17: whether notify_change succeeds or fails, an update whose write was
\* persisted reports success, and an update that was rejected reports the
\* rejection its checks gave.
C17_NotifyNeverAffectsOutcome ==
    \A r \in Slots :
        (IsUpdate(r) /\ Done(r) /\ validate_slug(req[r].slug))
        => IF ts[r] # Unset
           THEN /\ Stored(r) = <<form_markdown(req[r]), note[r].version + 1,
                                 note[r].created_at>>
                /\ resp[r] = Redirect
           ELSE resp[r] = update_note_loaded(req[r], note[r])

\* the size of a text in bytes: len(text.encode("utf-8"))
MdBytes(md) == Len(md.unit) * md.width * md.times

\* C18: in every reachable state the markdown of every stored note is at
\* most 100,000 bytes of UTF-8, whatever creates and updates produced it.
C18_StoredMarkdownWithinBytes ==
    \A p \in DOMAIN files :
        json_load(files[p].data).ok
        => MdBytes(json_load(files[p].data).note.markdown) <= MAX_MARKDOWN_SIZE

\* the slug of the request that slot r holds before or after a step
StepSlug(r) == IF req[r] # None THEN req[r].slug ELSE req'[r].slug

\* C19: two distinct slugs that the validator accepts have distinct files,
\* and no step of a request on a slug, whatever the request and its outcome,
\* changes what load_note returns for any other slug.
C19_OtherSlugsUnchanged ==
    [][/\ \A s1 \in SeqInputs.slugs, s2 \in SeqInputs.slugs :
             (validate_slug(s1) /\ validate_slug(s2) /\ s1 # s2)
             => get_note_path(s1) # get_note_path(s2)
       /\ \A r \in Slots, s \in SeqInputs.slugs :
             ( /\ pc'[r] # pc[r]
               /\ validate_slug(s)
               /\ s # StepSlug(r) )
             => /\ exists(get_note_path(s))' = exists(get_note_path(s))
                /\ load_note(s)' = load_note(s)]_vars

\* an update of slug b has succeeded while the note of slug a is stored at
\* version 2
C19_Witness ==
    \E r \in Slots :
        /\ IsUpdate(r) /\ Done(r)
        /\ req[r].slug = <<"b">>
        /\ resp[r] = Redirect
        /\ load_note(<<"b">>).note.version = 2
        /\ exists("a.json")
        /\ load_note(<<"a">>).note.version = 2

\* C20: update_note checks the slug, then that the note exists, then the
\* size, then the version, and answers with the first check that fails: a
\* malformed slug is 400 whatever else is wrong, an update of an absent
\* slug is 404 whatever its markdown and version, an oversized update of an
\* existing note is 413 also when its version is stale, and 409 is left to
\* stale updates within the limit.
C20_FirstFailingCheck ==
    \A r \in Slots :
        (IsUpdate(r) /\ Done(r))
        => IF ~validate_slug(req[r].slug) THEN resp[r] = InvalidSlug
           ELSE IF note[r] = None THEN resp[r] = NotFound
           ELSE form_version(req[r]).ok
                => /\ ~WithinLimit(r) => resp[r] = TooLarge
                   /\ (WithinLimit(r) /\ PresentsStale(r))
                      => resp[r] = Conflict
                   /\ resp[r] = Conflict => PresentsStale(r)

\* an update one character over the limit that presents version 1 to a note
\* at version 2 is answered 413
C20_Witness ==
    \E r \in Slots :
        /\ PresentsStale(r) /\ Done(r)
        /\ ~WithinLimit(r)
        /\ form_version(req[r]).value = 1
        /\ note[r].version = 2
        /\ resp[r] = TooLarge

\* C21: notify_change is called only by an update, after its save_note has
\* written the file, which then holds the record of the update; an update
\* that reports success has made exactly one call, and a request that ends
\* in 400, 404, 413 or 409 and a view, an implicit create included, has made
\* none.
C21_NotifiedOncePerSuccess ==
    [][\A r \in Slots :
          /\ notified'[r] > notified[r]
             => /\ IsUpdate(r)
                /\ pc[r] = "notify"
                /\ notified[r] = 0
                /\ notified'[r] = 1
                /\ Stored(r) = <<form_markdown(req[r]), note[r].version + 1,
                                 note[r].created_at>>
          /\ pc'[r] = "done"
             => notified'[r] =
                  IF req'[r].method = "POST" /\ resp'[r] = Redirect
                  THEN 1 ELSE 0]_vars

\* an update has reported success with its one notification, after a view
\* that created the note without any
C21_Witness ==
    \E r \in Slots :
        /\ IsUpdate(r) /\ Done(r)
        /\ resp[r] = Redirect
        /\ notified[r] = 1
        /\ note[r].version = 1
        /\ Stored(r) = <<[unit |-> "B", times |-> 1, width |-> 1], 2,
                         note[r].created_at>>

\* update r found a note and its form has no version field
NoVersionField(r) ==
    /\ IsUpdate(r)
    /\ note[r] # None
    /\ req[r].version = None

\* C22 as stated: every update of an existing note without a version field
\* returns Conflict and leaves the record as it was.
C22_NoVersionAlwaysConflict ==
    \A r \in Slots :
        (NoVersionField(r) /\ Done(r))
        => /\ resp[r] = Conflict
           /\ Stored(r) = json_dump(note[r])

\* C22, amended: every stored note has a version of at least 1, an update
\* without a version field presents client_version 0, and when its markdown
\* is within the limit it returns Conflict and leaves markdown, version and
\* created_at as they were.
C22_NoVersionWithinLimitConflict ==
    /\ \A p \in DOMAIN files :
          json_load(files[p].data).ok
          => json_load(files[p].data).note.version >= 1
    /\ \A r \in Slots :
          NoVersionField(r)
          => /\ form_version(req[r]) = [ok |-> TRUE, value |-> 0]
             /\ (WithinLimit(r) /\ Done(r))
                => /\ resp[r] = Conflict
                   /\ Stored(r) = json_dump(note[r])

\* an update with a markdown and no version field is answered 409 by a note
\* at version 1
C22_Witness ==
    \E r \in Slots :
        /\ NoVersionField(r) /\ Done(r)
        /\ req[r].markdown = [unit |-> "B", times |-> 1, width |-> 1]
        /\ note[r].version = 1
        /\ resp[r] = Conflict
        /\ Stored(r) = json_dump(note[r])

====
